---- MODULE Spec2Model ----
(***************************************************************************)
(* Model of the return-to-print message queue: the DynamoDB message store  *)
(* (backend/message_printer_api/chalicelib/db.py), the HTTP handlers the   *)
(* worker talks to (backend/message_printer_api/app.py) and the receipt    *)
(* printer worker loop (pi-worker/worker.py).                              *)
(*                                                                         *)
(* Environment assumptions, stated once:                                   *)
(*  - the wall clock read by datetime.utcnow() never runs backwards, but   *)
(*    two reads may return the same instant;                               *)
(*  - uuid.uuid4() never returns an id that is already in the table;       *)
(*  - a query on the index sees every completed write (the repository's    *)
(*    tests read the index right after a write); among items with equal    *)
(*    index keys the index may return any of them first.                   *)
(***************************************************************************)
EXTENDS Integers, Sequences, FiniteSets, TLC

\* ---------------------------------------------------------------- bounds
MaxMsgs == 2      \* messages ever created
MaxUs == 2        \* the clock shows microseconds 0..MaxUs of one second
MaxPrints == 2    \* the count of prints of a message saturates here
MaxAckFailures == 1   \* the count of failed acknowledgments of a message saturates here
MaxStrLen == 4    \* short request strings have up to this many characters

\* ------------------------------------------------------------- constants
POLL_INTERVAL_SECONDS == 5
PRINTER_RECONNECT_DELAY == 30
PAUSE_SECONDS == 2
MAX_NAME_LENGTH == 50
MAX_CONTENT_LENGTH == 280
UNSET_USB_ID == 0         \* 0x0000, the placeholder of VENDOR_ID / PRODUCT_ID
USB_ID == 4070            \* 0x0fe6, the id of the documentation's example

None == <<>>              \* Python's None / JSON null
MsgIds == 1..MaxMsgs      \* the values uuid4() returns
GhostId == MaxMsgs + 1    \* an id that uuid4() never returned
AllIds == MsgIds \cup {GhostId}
Contents == {"Hi"}        \* validated message contents
Workers == {1, 2}         \* worker processes that may be launched
Instants == 0..MaxUs      \* the values of utcnow(): microseconds into the second

VARIABLES
    table,        \* the DynamoDB table: items in the order they were first written
    now,          \* the instant datetime.utcnow() returns
    lastOp,       \* the last db call made directly, with its result
    marked,       \* history: ids for which mark_message_printed returned normally
    vendor_id,    \* PrinterWorker.vendor_id, per worker
    product_id,   \* PrinterWorker.product_id, per worker
    printer,      \* PrinterWorker.printer: "none", "open" or "closed", per worker
    running,      \* PrinterWorker.running, per worker
    pc,           \* position of each worker in run()
    message,      \* the local `message` of run(), per worker
    sleepLeft,    \* seconds the time.sleep() call in progress still has to run, per worker
    iter,         \* history: outcome of print and acknowledge, and the error caught,
                  \* in the current iteration
    printCount,   \* history: completed prints (cut issued) per message id
    failed,       \* history: some poll, print or acknowledge has failed
    stuck,        \* history: ids whose latest print attempt failed
    ackFailures,  \* history: mark_as_printed calls that returned False, per message id
    sigAt         \* history: the print or sleep in which the signal reached the worker
                  \* ("none" when it arrived elsewhere), kept until the loop is left

storeVars == <<table, now, lastOp, marked>>
workerVars == <<vendor_id, product_id, printer, running, pc, message, sleepLeft>>
histVars == <<iter, printCount, failed, stuck, ackFailures, sigAt>>
vars == <<table, now, lastOp, marked, vendor_id, product_id, printer, running,
          pc, message, sleepLeft, iter, printCount, failed, stuck, ackFailures,
          sigAt>>

\* ------------------------------------------------------------ timestamps
\* Strings are sequences of character codes: '.' = 46, '0'..'9' = 48..57, 'Z' = 90.
\* datetime.isoformat() drops the fraction when microsecond is 0.  The date and
\* hh:mm:ss, the same in every timestamp of the model, are the one character '0';
\* the six digits of the fraction are one digit.
isoformat(t) ==
    IF t = 0 THEN <<48>> ELSE <<48, 46, 48 + t>>

\* datetime.utcnow().isoformat() + 'Z'
utcnow_iso(t) == isoformat(t) \o <<90>>

\* datetime.fromisoformat(created_at.replace('Z', '+00:00')): the instant a
\* stored timestamp denotes.
fromisoformat(s) == IF Len(s) = 2 THEN 0 ELSE s[3] - 48

\* Chronological order of instants.
Before(a, b) == a < b

\* Order of two string attributes in an index or in list.sort: code point by
\* code point, a proper prefix first.
RECURSIVE StrLess(_, _)
StrLess(a, b) ==
    IF b = <<>> THEN FALSE
    ELSE IF a = <<>> THEN TRUE
    ELSE IF Head(a) # Head(b) THEN Head(a) < Head(b)
    ELSE StrLess(Tail(a), Tail(b))

StrLeq(a, b) == a = b \/ StrLess(a, b)

\* ----------------------------------------------------------- validators.py
\* The characters str.strip() removes: those for which str.isspace() holds.
Whitespace == {9, 10, 11, 12, 13, 28, 29, 30, 31, 32, 133, 160}

\* A request field: a string (sequence of character codes), or absent, which
\* body.get(...) turns into None.
Absent == [given |-> FALSE, text |-> <<>>]
Given(s) == [given |-> TRUE, text |-> s]

\* The outcomes of a validator.
Returned(s) == [ok |-> TRUE, value |-> s]
ValueError == [ok |-> FALSE, value |-> <<>>]

RECURSIVE lstrip(_)
lstrip(s) ==
    IF s # <<>> /\ Head(s) \in Whitespace THEN lstrip(Tail(s)) ELSE s

RECURSIVE rstrip(_)
rstrip(s) ==
    IF s # <<>> /\ s[Len(s)] \in Whitespace
    THEN rstrip(SubSeq(s, 1, Len(s) - 1)) ELSE s

\* str.strip()
strip(s) == rstrip(lstrip(s))

\* Variant: the length test is `>=`.
validate_name_off_by_one(name) ==
    IF ~name.given THEN ValueError
    ELSE LET trimmed == strip(name.text) IN
         IF trimmed = <<>> THEN ValueError
         ELSE IF Len(trimmed) >= MAX_NAME_LENGTH THEN ValueError
         ELSE Returned(trimmed)

\* Variant: the length is not tested.
validate_name_any_length(name) ==
    IF ~name.given THEN ValueError
    ELSE LET trimmed == strip(name.text) IN
         IF trimmed = <<>> THEN ValueError
         ELSE Returned(trimmed)

validate_name(name) ==
    IF ~name.given THEN ValueError
    ELSE LET trimmed == strip(name.text) IN
         IF trimmed = <<>> THEN ValueError
         ELSE IF Len(trimmed) > MAX_NAME_LENGTH THEN ValueError
         ELSE Returned(trimmed)

\* Variant: the value is returned as it came, not trimmed.
validate_message_content_untrimmed(content) ==
    IF ~content.given THEN ValueError
    ELSE LET trimmed == strip(content.text) IN
         IF trimmed = <<>> THEN ValueError
         ELSE IF Len(trimmed) > MAX_CONTENT_LENGTH THEN ValueError
         ELSE Returned(content.text)

validate_message_content(content) ==
    IF ~content.given THEN ValueError
    ELSE LET trimmed == strip(content.text) IN
         IF trimmed = <<>> THEN ValueError
         ELSE IF Len(trimmed) > MAX_CONTENT_LENGTH THEN ValueError
         ELSE Returned(trimmed)

validate_message_id(message_id) ==
    IF ~message_id.given THEN ValueError
    ELSE LET trimmed == strip(message_id.text) IN
         IF trimmed = <<>> THEN ValueError
         ELSE Returned(trimmed)

\* Request strings: every string of up to MaxStrLen characters over a tab, a
\* space and a letter, and strings around a length limit, bare or padded.
Chars == {9, 32, 97}
ShortStrings == UNION {[1..n -> Chars] : n \in 0..MaxStrLen}
Repeat(c, n) == [i \in 1..n |-> c]
LongStrings(limit) ==
    {lead \o Repeat(97, n) \o trail :
        n \in {limit - 1, limit, limit + 1},
        lead \in {<<>>, <<32>>}, trail \in {<<>>, <<10>>}}
NameInputs == {Absent} \cup {Given(s) : s \in ShortStrings \cup LongStrings(MAX_NAME_LENGTH)}
ContentInputs ==
    {Absent} \cup {Given(s) : s \in ShortStrings \cup LongStrings(MAX_CONTENT_LENGTH)}

\* ------------------------------------------------------------------ db.py
HasItem(tbl, id) == \E i \in 1..Len(tbl) : tbl[i].id = id

ItemOf(tbl, id) == tbl[CHOOSE i \in 1..Len(tbl) : tbl[i].id = id]

\* Variant: `printed` is stored as str(False).
create_message_str_of_bool(tbl, id, content, t) ==
    Append(tbl, [id |-> id, content |-> content, created_at |-> utcnow_iso(t),
                 printed |-> "False", printed_at |-> None])

\* create_message: put_item of a fresh item.
create_message(tbl, id, content, t) ==
    Append(tbl, [id |-> id, content |-> content, created_at |-> utcnow_iso(t),
                 printed |-> "false", printed_at |-> None])

\* PrintedStatusIndex: the positions of the items that carry both index keys
\* and whose partition key `printed` equals p.
IndexPartition(tbl, p) ==
    {i \in 1..Len(tbl) : "created_at" \in DOMAIN tbl[i] /\ tbl[i].printed = p}

\* The first item of the partition in the scan direction (Limit = 1).
QueryFirst(tbl, p, forward) ==
    LET part == IndexPartition(tbl, p)
    IN  {tbl[i] : i \in {k \in part : \A j \in part :
            IF forward THEN StrLeq(tbl[k].created_at, tbl[j].created_at)
                       ELSE StrLeq(tbl[j].created_at, tbl[k].created_at)}}

\* get_next_unprinted: the set of values the call may return.
get_next_unprinted(tbl) ==
    LET items == QueryFirst(tbl, "false", TRUE)
    IN  IF items = {} THEN {None} ELSE items

\* Variant: the update expression sets `printed` and leaves printed_at.
mark_message_printed_flag_only(tbl, id, t) ==
    IF HasItem(tbl, id)
    THEN [i \in 1..Len(tbl) |->
            IF tbl[i].id = id THEN [tbl[i] EXCEPT !.printed = "true"] ELSE tbl[i]]
    ELSE Append(tbl, [id |-> id, printed |-> "true", printed_at |-> None])

\* Variant: the update expression sets printed_at and leaves `printed`.
mark_message_printed_at_only(tbl, id, t) ==
    IF HasItem(tbl, id)
    THEN [i \in 1..Len(tbl) |->
            IF tbl[i].id = id THEN [tbl[i] EXCEPT !.printed_at = utcnow_iso(t)] ELSE tbl[i]]
    ELSE Append(tbl, [id |-> id, printed |-> "true", printed_at |-> utcnow_iso(t)])

\* Variant: the update flips `printed` instead of setting it.
mark_message_printed_toggle(tbl, id, t) ==
    IF HasItem(tbl, id)
    THEN [i \in 1..Len(tbl) |->
            IF tbl[i].id = id
            THEN [tbl[i] EXCEPT !.printed = IF @ = "true" THEN "false" ELSE "true",
                                !.printed_at = utcnow_iso(t)]
            ELSE tbl[i]]
    ELSE Append(tbl, [id |-> id, printed |-> "true", printed_at |-> utcnow_iso(t)])

\* Variant: the item is written with put_item, which replaces it whole.
mark_message_printed_put(tbl, id, t) ==
    IF HasItem(tbl, id)
    THEN [i \in 1..Len(tbl) |->
            IF tbl[i].id = id
            THEN [id |-> id, printed |-> "true", printed_at |-> utcnow_iso(t)]
            ELSE tbl[i]]
    ELSE Append(tbl, [id |-> id, printed |-> "true", printed_at |-> utcnow_iso(t)])

\* Variant: the update is written as a new item next to the old one.
mark_message_printed_appends(tbl, id, t) ==
    IF HasItem(tbl, id)
    THEN Append(tbl, [ItemOf(tbl, id) EXCEPT !.printed = "true",
                                             !.printed_at = utcnow_iso(t)])
    ELSE Append(tbl, [id |-> id, printed |-> "true", printed_at |-> utcnow_iso(t)])

\* mark_message_printed: update_item sets both attributes unconditionally and
\* creates the item when the key matches none.
mark_message_printed(tbl, id, t) ==
    IF HasItem(tbl, id)
    THEN [i \in 1..Len(tbl) |->
            IF tbl[i].id = id
            THEN [tbl[i] EXCEPT !.printed = "true", !.printed_at = utcnow_iso(t)]
            ELSE tbl[i]]
    ELSE Append(tbl, [id |-> id, printed |-> "true", printed_at |-> utcnow_iso(t)])

\* The sort key of get_recent_messages: x.get('created_at', '').
RecentKey(item) == IF "created_at" \in DOMAIN item THEN item.created_at ELSE <<>>

\* items.sort(key=..., reverse=True) applied to table.scan(): the orders of the
\* positions in S with non-increasing key.  The scan order is not fixed, so
\* items with equal keys come in any order.
RECURSIVE SortedScan(_, _)
SortedScan(tbl, S) ==
    IF S = {} THEN {<<>>}
    ELSE UNION {{<<k>> \o rest : rest \in SortedScan(tbl, S \ {k})} :
                  k \in {i \in S : \A j \in S :
                            StrLeq(RecentKey(tbl[j]), RecentKey(tbl[i]))}}

\* get_recent_messages: scan, sort by created_at descending, cut to limit.
get_recent_messages(tbl, limit) ==
    LET m == IF limit < Len(tbl) THEN limit ELSE Len(tbl)
    IN  {[i \in 1..m |-> tbl[f[i]]] : f \in SortedScan(tbl, 1..Len(tbl))}

\* ------------------------------------------------------- direct db calls
\* uuid.uuid4(): an id that is not in the table (the smallest one, ids being
\* interchangeable).
uuid4(tbl) == CHOOSE id \in MsgIds :
    /\ ~HasItem(tbl, id)
    /\ \A other \in MsgIds : ~HasItem(tbl, other) => id <= other

DbCreate ==
    /\ \E id \in MsgIds : ~HasItem(table, id)
    /\ \E c \in Contents :
         LET id == uuid4(table) IN
         /\ table' = create_message(table, id, c, now)
         /\ lastOp' = [op |-> "create_message", arg |-> id, result |-> table'[Len(table')]]
    /\ UNCHANGED <<now, marked, workerVars, histVars>>

DbGetRecent ==
    /\ \E limit \in 0..(MaxMsgs + 1) :
         \E r \in get_recent_messages(table, limit) :
            lastOp' = [op |-> "get_recent_messages", arg |-> limit, result |-> r]
    /\ UNCHANGED <<table, now, marked, workerVars, histVars>>

DbGetNextUnprinted ==
    /\ \E r \in get_next_unprinted(table) :
         lastOp' = [op |-> "get_next_unprinted", arg |-> None, result |-> r,
                    after |-> [op |-> lastOp.op, arg |-> lastOp.arg]]
    /\ UNCHANGED <<table, now, marked, workerVars, histVars>>

DbMarkPrinted(id) ==
    /\ table' = mark_message_printed(table, id, now)
    /\ marked' = marked \cup {id}
    /\ lastOp' = [op |-> "mark_message_printed", arg |-> id, result |-> None]
    /\ UNCHANGED <<now, workerVars, histVars>>

\* Time passes: the clock moves to a later instant.
Tick ==
    /\ \E t \in Instants : Before(now, t) /\ now' = t
    /\ UNCHANGED <<table, lastOp, marked, workerVars, histVars>>

\* -------------------------------------------------------------- worker.py
WaitPcs == {"backoff", "pollwait", "pause", "errwait"}

NoIter == [print |-> "none", ack |-> "none", err |-> "none"]

Bump(n) == IF n < MaxPrints THEN n + 1 ELSE n

\* PrinterWorker.__init__ for the launched workers; VENDOR_ID and PRODUCT_ID are
\* whatever the operator wrote into the configuration section.
InitWorkers(launched) ==
    /\ vendor_id \in [Workers -> {UNSET_USB_ID, USB_ID}]
    /\ product_id \in [Workers -> {UNSET_USB_ID, USB_ID}]
    /\ \A w \in Workers \ launched :
         vendor_id[w] = UNSET_USB_ID /\ product_id[w] = UNSET_USB_ID
    /\ printer = [w \in Workers |-> "none"]
    /\ running = [w \in Workers |-> TRUE]
    /\ pc = [w \in Workers |-> IF w \in launched THEN "start" ELSE "unlaunched"]
    /\ message = [w \in Workers |-> None]
    /\ sleepLeft = [w \in Workers |-> 0]
    /\ iter = [w \in Workers |-> NoIter]
    /\ printCount = [id \in MsgIds |-> 0]
    /\ failed = FALSE
    /\ stuck = {}
    /\ ackFailures = [id \in MsgIds |-> 0]
    /\ sigAt = [w \in Workers |-> "none"]

\* Variant: the signal ends a print in progress and run() goes to its cleanup.
SignalAbortsPrint(w) ==
    /\ pc[w] \notin {"unlaunched", "aborted", "done"}
    /\ running[w]
    /\ running' = [running EXCEPT ![w] = FALSE]
    /\ sigAt' = [sigAt EXCEPT ![w] = IF pc[w] \in WaitPcs \cup {"print"} THEN pc[w] ELSE @]
    /\ pc' = [pc EXCEPT ![w] = IF @ = "print" THEN "cleanup" ELSE @]
    /\ UNCHANGED <<storeVars, vendor_id, product_id, printer, message, sleepLeft, iter,
                   printCount, stuck, ackFailures, failed>>

\* _signal_handler: SIGTERM or SIGINT is delivered to a live worker.  The
\* handler sets the flag and returns; the interrupted call goes on.
Signal(w) ==
    /\ pc[w] \notin {"unlaunched", "aborted", "done"}
    /\ running[w]
    /\ running' = [running EXCEPT ![w] = FALSE]
    /\ sigAt' = [sigAt EXCEPT ![w] = IF pc[w] \in WaitPcs \cup {"print"} THEN pc[w] ELSE @]
    /\ UNCHANGED <<storeVars, vendor_id, product_id, printer, pc, message, sleepLeft,
                   iter, printCount, stuck, ackFailures, failed>>

\* Variant: the check aborts only when both ids are unset.
StartBothUnset(w) ==
    /\ pc[w] = "start"
    /\ pc' = [pc EXCEPT ![w] =
          IF vendor_id[w] = UNSET_USB_ID /\ product_id[w] = UNSET_USB_ID
          THEN "aborted" ELSE "loop"]
    /\ UNCHANGED <<storeVars, vendor_id, product_id, printer, running, message,
                   sleepLeft, histVars>>

\* run(): the configuration check before the loop.
Start(w) ==
    /\ pc[w] = "start"
    /\ pc' = [pc EXCEPT ![w] =
          IF vendor_id[w] = UNSET_USB_ID \/ product_id[w] = UNSET_USB_ID
          THEN "aborted" ELSE "loop"]
    /\ UNCHANGED <<storeVars, vendor_id, product_id, printer, running, message,
                   sleepLeft, histVars>>

\* Variant: the top of the loop does not look at the handle.
LoopTopNoConnect(w) ==
    /\ pc[w] = "loop"
    /\ pc' = [pc EXCEPT ![w] = IF ~running[w] THEN "cleanup" ELSE "poll"]
    /\ iter' = [iter EXCEPT ![w] = NoIter]
    /\ message' = [message EXCEPT ![w] = None]
    /\ sigAt' = [sigAt EXCEPT ![w] = "none"]
    /\ UNCHANGED <<storeVars, vendor_id, product_id, printer, running, sleepLeft,
                   printCount, stuck, ackFailures, failed>>

\* Variant: `while True`, the flag is read only once a poll found nothing.
LoopTopIgnoresFlag(w) ==
    /\ pc[w] = "loop"
    /\ pc' = [pc EXCEPT ![w] =
          IF ~running[w] /\ iter[w].print = "none" /\ iter[w].err = "none" THEN "cleanup"
          ELSE IF printer[w] # "open" THEN "connect" ELSE "poll"]
    /\ iter' = [iter EXCEPT ![w] = NoIter]
    /\ message' = [message EXCEPT ![w] = None]
    /\ sigAt' = [sigAt EXCEPT ![w] = "none"]
    /\ UNCHANGED <<storeVars, vendor_id, product_id, printer, running, sleepLeft,
                   printCount, stuck, ackFailures, failed>>

\* run(): `while self.running` and `if not self.printer` at the top of an iteration.
\* The local `message` of the previous iteration is dead here (it is assigned
\* again before it is read), so the model forgets it.
LoopTop(w) ==
    /\ pc[w] = "loop"
    /\ pc' = [pc EXCEPT ![w] =
          IF ~running[w] THEN "cleanup"
          ELSE IF printer[w] # "open" THEN "connect" ELSE "poll"]
    /\ iter' = [iter EXCEPT ![w] = NoIter]
    /\ message' = [message EXCEPT ![w] = None]
    /\ sigAt' = [sigAt EXCEPT ![w] = "none"]
    /\ UNCHANGED <<storeVars, vendor_id, product_id, printer, running, sleepLeft,
                   printCount, stuck, ackFailures, failed>>

\* connect_printer() returns True.
ConnectOk(w) ==
    /\ pc[w] = "connect"
    /\ printer' = [printer EXCEPT ![w] = "open"]
    /\ pc' = [pc EXCEPT ![w] = "poll"]
    /\ UNCHANGED <<storeVars, vendor_id, product_id, running, message, sleepLeft,
                   histVars>>

\* Variant: run() goes on to the next iteration without time.sleep.
ConnectFailedNoBackoff(w) ==
    /\ pc[w] = "connect"
    /\ \E err \in {"USBNotFoundError", "PermissionError", "Exception"} :
         /\ printer' = [printer EXCEPT ![w] = "none"]
         /\ iter' = [iter EXCEPT ![w].err = err]
    /\ pc' = [pc EXCEPT ![w] = "loop"]
    /\ UNCHANGED <<storeVars, vendor_id, product_id, running, message, sleepLeft,
                   printCount, stuck, ackFailures, failed, sigAt>>

\* connect_printer() returns False: USBNotFoundError, PermissionError or any
\* other exception; run() then calls time.sleep(PRINTER_RECONNECT_DELAY).
ConnectFailed(w) ==
    /\ pc[w] = "connect"
    /\ \E err \in {"USBNotFoundError", "PermissionError", "Exception"} :
         /\ printer' = [printer EXCEPT ![w] = "none"]
         /\ iter' = [iter EXCEPT ![w].err = err]
    /\ pc' = [pc EXCEPT ![w] = "backoff"]
    /\ sleepLeft' = [sleepLeft EXCEPT ![w] = PRINTER_RECONNECT_DELAY]
    /\ UNCHANGED <<storeVars, vendor_id, product_id, running, message, printCount,
                   stuck, ackFailures, failed, sigAt>>

\* The interval goes by inside time.sleep().  A signal whose handler returns
\* does not end the call: it sleeps for what is left of the interval.
Sleep(w) ==
    /\ pc[w] \in WaitPcs
    /\ sleepLeft[w] > 0
    /\ sleepLeft' = [sleepLeft EXCEPT ![w] = 0]
    /\ UNCHANGED <<storeVars, vendor_id, product_id, printer, running, pc, message,
                   histVars>>

\* time.sleep(PRINTER_RECONNECT_DELAY) returns; continue
Backoff(w) ==
    /\ pc[w] = "backoff"
    /\ sleepLeft[w] = 0
    /\ pc' = [pc EXCEPT ![w] = "loop"]
    /\ UNCHANGED <<storeVars, vendor_id, product_id, printer, running, message,
                   sleepLeft, histVars>>

\* Variant: the handler answers 404 when there is nothing to print.
get_next_to_print_response_404(tbl) ==
    {[status |-> IF m = None THEN 404 ELSE 200, body |-> [message |-> m]] :
        m \in get_next_unprinted(tbl)}

\* app.get_next_to_print: the answers the handler may give.
get_next_to_print_response(tbl) ==
    {[status |-> 200, body |-> [message |-> m]] : m \in get_next_unprinted(tbl)}

\* The body's `message` of a 200 answer, as get_next_message() reads it.
get_next_to_print(tbl) ==
    {r.body.message : r \in {a \in get_next_to_print_response(tbl) : a.status = 200}}

\* Variant: the backend marks the message printed when it hands it out.
PollOkClaims(w) ==
    /\ pc[w] = "poll"
    /\ \E m \in get_next_to_print(table) :
         /\ message' = [message EXCEPT ![w] = m]
         /\ table' = IF m = None THEN table ELSE mark_message_printed(table, m.id, now)
         /\ pc' = [pc EXCEPT ![w] = IF m = None THEN "pollwait" ELSE "print"]
         /\ sleepLeft' = [sleepLeft EXCEPT ![w] =
                            IF m = None THEN POLL_INTERVAL_SECONDS ELSE @]
    /\ UNCHANGED <<now, lastOp, marked, vendor_id, product_id, printer, running,
                   histVars>>

\* get_next_message() gets an answer: a message, or null; on null run() calls
\* time.sleep(POLL_INTERVAL_SECONDS).
PollOk(w) ==
    /\ pc[w] = "poll"
    /\ \E m \in get_next_to_print(table) :
         /\ message' = [message EXCEPT ![w] = m]
         /\ pc' = [pc EXCEPT ![w] = IF m = None THEN "pollwait" ELSE "print"]
         /\ sleepLeft' = [sleepLeft EXCEPT ![w] =
                            IF m = None THEN POLL_INTERVAL_SECONDS ELSE @]
    /\ UNCHANGED <<storeVars, vendor_id, product_id, printer, running, histVars>>

\* Variant: the wait after a failed poll is twice the poll interval.
PollFailedDoubles(w) ==
    /\ pc[w] = "poll"
    /\ iter' = [iter EXCEPT ![w].err = "RequestException"]
    /\ message' = [message EXCEPT ![w] = None]
    /\ pc' = [pc EXCEPT ![w] = "pollwait"]
    /\ sleepLeft' = [sleepLeft EXCEPT ![w] = 2 * POLL_INTERVAL_SECONDS]
    /\ failed' = TRUE
    /\ UNCHANGED <<storeVars, vendor_id, product_id, printer, running, printCount,
                   stuck, ackFailures, sigAt>>

\* get_next_message() catches a timeout, a connection error or an HTTP error
\* (each a requests RequestException) and returns None; run() then calls
\* time.sleep(POLL_INTERVAL_SECONDS).
PollFailed(w) ==
    /\ pc[w] = "poll"
    /\ iter' = [iter EXCEPT ![w].err = "RequestException"]
    /\ message' = [message EXCEPT ![w] = None]
    /\ pc' = [pc EXCEPT ![w] = "pollwait"]
    /\ sleepLeft' = [sleepLeft EXCEPT ![w] = POLL_INTERVAL_SECONDS]
    /\ failed' = TRUE
    /\ UNCHANGED <<storeVars, vendor_id, product_id, printer, running, printCount,
                   stuck, ackFailures, sigAt>>

\* Variant: the loop body has no `except Exception`, so the error leaves run().
ExtractFailedUncaught(w) ==
    /\ pc[w] = "poll"
    /\ iter' = [iter EXCEPT ![w].err = "KeyError"]
    /\ message' = [message EXCEPT ![w] = None]
    /\ pc' = [pc EXCEPT ![w] = "done"]
    /\ failed' = TRUE
    /\ UNCHANGED <<storeVars, vendor_id, product_id, printer, running, sleepLeft,
                   printCount, stuck, ackFailures, sigAt>>

\* The answer carries a message that run() cannot take apart: message['id'] or
\* message['content'] raises KeyError.
\* The `except Exception` of the loop body logs it and calls
\* time.sleep(POLL_INTERVAL_SECONDS).
ExtractFailed(w) ==
    /\ pc[w] = "poll"
    /\ iter' = [iter EXCEPT ![w].err = "KeyError"]
    /\ message' = [message EXCEPT ![w] = None]
    /\ pc' = [pc EXCEPT ![w] = "errwait"]
    /\ sleepLeft' = [sleepLeft EXCEPT ![w] = POLL_INTERVAL_SECONDS]
    /\ failed' = TRUE
    /\ UNCHANGED <<storeVars, vendor_id, product_id, printer, running, printCount,
                   stuck, ackFailures, sigAt>>

\* time.sleep(POLL_INTERVAL_SECONDS) of the `except Exception` branch returns.
ErrorWait(w) ==
    /\ pc[w] = "errwait"
    /\ sleepLeft[w] = 0
    /\ pc' = [pc EXCEPT ![w] = "loop"]
    /\ UNCHANGED <<storeVars, vendor_id, product_id, printer, running, message,
                   sleepLeft, histVars>>

\* time.sleep(POLL_INTERVAL_SECONDS) returns; continue
PollWait(w) ==
    /\ pc[w] = "pollwait"
    /\ sleepLeft[w] = 0
    /\ pc' = [pc EXCEPT ![w] = "loop"]
    /\ UNCHANGED <<storeVars, vendor_id, product_id, printer, running, message,
                   sleepLeft, histVars>>

\* print_message() returns True: every block was sent and the paper was cut.
PrintOk(w) ==
    /\ pc[w] = "print"
    /\ printer[w] = "open"
    /\ printCount' = [printCount EXCEPT ![message[w].id] = Bump(@)]
    /\ stuck' = stuck \ {message[w].id}
    /\ iter' = [iter EXCEPT ![w].print = "ok"]
    /\ pc' = [pc EXCEPT ![w] = "ack"]
    /\ UNCHANGED <<storeVars, vendor_id, product_id, printer, running, message,
                   sleepLeft, failed, ackFailures, sigAt>>

\* Variant: after a failed print run() goes on to the next iteration at once.
PrintFailedNoPause(w) ==
    /\ pc[w] = "print"
    /\ \E err \in {"USBNotFoundError", "EscposError", "Exception"} :
         /\ printer' = [printer EXCEPT ![w] =
                           IF err = "USBNotFoundError" THEN "none" ELSE @]
         /\ iter' = [iter EXCEPT ![w].print = "failed", ![w].err = err]
    /\ failed' = TRUE
    /\ stuck' = stuck \cup {message[w].id}
    /\ pc' = [pc EXCEPT ![w] = "loop"]
    /\ UNCHANGED <<storeVars, vendor_id, product_id, running, message, sleepLeft,
                   printCount, ackFailures, sigAt>>

\* Variant: run() goes on to mark_as_printed whatever print_message returned.
PrintFailedThenAck(w) ==
    /\ pc[w] = "print"
    /\ \E err \in {"USBNotFoundError", "EscposError", "Exception"} :
         /\ printer' = [printer EXCEPT ![w] =
                           IF err = "USBNotFoundError" THEN "none" ELSE @]
         /\ iter' = [iter EXCEPT ![w].print = "failed", ![w].err = err]
    /\ failed' = TRUE
    /\ stuck' = stuck \cup {message[w].id}
    /\ pc' = [pc EXCEPT ![w] = "ack"]
    /\ UNCHANGED <<storeVars, vendor_id, product_id, running, message, sleepLeft,
                   printCount, ackFailures, sigAt>>

\* Variant: no branch of print_message clears the handle.
PrintFailedKeepsHandle(w) ==
    /\ pc[w] = "print"
    /\ \E err \in {"USBNotFoundError", "EscposError", "Exception"} :
         iter' = [iter EXCEPT ![w].print = "failed", ![w].err = err]
    /\ failed' = TRUE
    /\ stuck' = stuck \cup {message[w].id}
    /\ pc' = [pc EXCEPT ![w] = "pause"]
    /\ sleepLeft' = [sleepLeft EXCEPT ![w] = PAUSE_SECONDS]
    /\ UNCHANGED <<storeVars, vendor_id, product_id, printer, running, message,
                   printCount, ackFailures, sigAt>>

\* print_message() returns False: the device raised during the print.  Only
\* USBNotFoundError clears the handle.  run() then logs, skips mark_as_printed
\* and calls time.sleep(2).
PrintFailed(w) ==
    /\ pc[w] = "print"
    /\ \E err \in {"USBNotFoundError", "EscposError", "Exception"} :
         /\ printer' = [printer EXCEPT ![w] =
                           IF err = "USBNotFoundError" THEN "none" ELSE @]
         /\ iter' = [iter EXCEPT ![w].print = "failed", ![w].err = err]
    /\ failed' = TRUE
    /\ stuck' = stuck \cup {message[w].id}
    /\ pc' = [pc EXCEPT ![w] = "pause"]
    /\ sleepLeft' = [sleepLeft EXCEPT ![w] = PAUSE_SECONDS]
    /\ UNCHANGED <<storeVars, vendor_id, product_id, running, message, printCount,
                   ackFailures, sigAt>>

\* Variant: the handler answers 200 without calling db.mark_message_printed.
mark_printed_endpoint_no_update(tbl, id, t) == tbl

\* app.mark_message_printed: validate_message_id, then db.mark_message_printed.
mark_printed_endpoint(tbl, id, t) == mark_message_printed(tbl, id, t)

\* Variant: the backend answers 200 and the update is lost.
AckOkUnapplied(w) ==
    /\ pc[w] = "ack"
    /\ iter' = [iter EXCEPT ![w].ack = "ok"]
    /\ pc' = [pc EXCEPT ![w] = "pause"]
    /\ sleepLeft' = [sleepLeft EXCEPT ![w] = PAUSE_SECONDS]
    /\ UNCHANGED <<storeVars, vendor_id, product_id, printer, running, message,
                   printCount, stuck, ackFailures, failed, sigAt>>

\* mark_as_printed() returns True: the backend applied the update and answered
\* 200; run() then calls time.sleep(2).
AckOk(w) ==
    /\ pc[w] = "ack"
    /\ table' = mark_printed_endpoint(table, message[w].id, now)
    /\ marked' = marked \cup {message[w].id}
    /\ iter' = [iter EXCEPT ![w].ack = "ok"]
    /\ pc' = [pc EXCEPT ![w] = "pause"]
    /\ sleepLeft' = [sleepLeft EXCEPT ![w] = PAUSE_SECONDS]
    /\ UNCHANGED <<now, lastOp, vendor_id, product_id, printer, running, message,
                   printCount, stuck, ackFailures, failed, sigAt>>

\* Variant: run() calls mark_as_printed again until it returns True.
AckFailedRetry(w) ==
    /\ pc[w] = "ack"
    /\ iter' = [iter EXCEPT ![w].ack = "failed", ![w].err = "RequestException"]
    /\ failed' = TRUE
    /\ ackFailures' = [ackFailures EXCEPT ![message[w].id] =
                           IF @ < MaxAckFailures THEN @ + 1 ELSE @]
    /\ UNCHANGED <<storeVars, vendor_id, product_id, printer, running, pc, message,
                   sleepLeft, printCount, stuck, sigAt>>

\* mark_as_printed() returns False: the request never reached the backend or
\* was answered with an error (applied = FALSE), or the backend applied it and
\* the answer timed out (applied = TRUE).  run() logs a warning and calls
\* time.sleep(2).
AckFailed(w) ==
    /\ pc[w] = "ack"
    /\ \E applied \in BOOLEAN :
         /\ table' = IF applied THEN mark_printed_endpoint(table, message[w].id, now)
                                ELSE table
         /\ marked' = IF applied THEN marked \cup {message[w].id} ELSE marked
         /\ iter' = [iter EXCEPT ![w].ack = "failed", ![w].err = "RequestException"]
    /\ failed' = TRUE
    /\ ackFailures' = [ackFailures EXCEPT ![message[w].id] =
                           IF @ < MaxAckFailures THEN @ + 1 ELSE @]
    /\ pc' = [pc EXCEPT ![w] = "pause"]
    /\ sleepLeft' = [sleepLeft EXCEPT ![w] = PAUSE_SECONDS]
    /\ UNCHANGED <<now, lastOp, vendor_id, product_id, printer, running, message,
                   printCount, stuck, sigAt>>

\* time.sleep(2) at the end of an iteration that got a message returns.
Pause(w) ==
    /\ pc[w] = "pause"
    /\ sleepLeft[w] = 0
    /\ pc' = [pc EXCEPT ![w] = "loop"]
    /\ UNCHANGED <<storeVars, vendor_id, product_id, printer, running, message,
                   sleepLeft, histVars>>

\* Variant: run() returns without closing the printer.
CleanupNoClose(w) ==
    /\ pc[w] = "cleanup"
    /\ pc' = [pc EXCEPT ![w] = "done"]
    /\ UNCHANGED <<storeVars, vendor_id, product_id, printer, running, message,
                   sleepLeft, histVars>>

\* run() after the loop: close the printer if one is held.
Cleanup(w) ==
    /\ pc[w] = "cleanup"
    /\ printer' = [printer EXCEPT ![w] = IF @ = "open" THEN "closed" ELSE @]
    /\ pc' = [pc EXCEPT ![w] = "done"]
    /\ UNCHANGED <<storeVars, vendor_id, product_id, running, message, sleepLeft,
                   histVars>>

WorkerStep(w) ==
    \/ Start(w)
    \/ LoopTop(w)
    \/ ConnectOk(w)
    \/ ConnectFailed(w)
    \/ Sleep(w)
    \/ Backoff(w)
    \/ PollOk(w)
    \/ PollFailed(w)
    \/ ExtractFailed(w)
    \/ ErrorWait(w)
    \/ PollWait(w)
    \/ PrintOk(w)
    \/ PrintFailed(w)
    \/ AckOk(w)
    \/ AckFailed(w)
    \/ Pause(w)
    \/ Cleanup(w)

\* ------------------------------------------------- the single-worker system
InitSystem(launched) ==
    /\ table = <<>>
    /\ now = 0
    /\ lastOp = [op |-> "none", arg |-> None, result |-> None]
    /\ marked = {}
    /\ InitWorkers(launched)

Init == InitSystem({1})

Next ==
    \/ DbCreate
    \/ Tick
    \/ \E w \in Workers : Signal(w)
    \/ \E w \in Workers : WorkerStep(w)

Spec == Init /\ [][Next]_vars

\* ------------------------------------------------------- two workers
\* Two worker processes started against the same backend (main() run twice).
\* Both are configured; the clock stands still while they run, so that the
\* interleavings of the two loops are what is explored.
InitTwo ==
    /\ InitSystem(Workers)
    /\ \A w \in Workers : vendor_id[w] = USB_ID /\ product_id[w] = USB_ID

NextTwo ==
    \/ DbCreate
    \/ \E w \in Workers : Signal(w)
    \/ \E w \in Workers : WorkerStep(w)

TwoSpec == InitTwo /\ [][NextTwo]_vars

\* ------------------------------------------------------------- the store
InitStore ==
    /\ table = <<>>
    /\ now = 0
    /\ lastOp = [op |-> "none", arg |-> None, result |-> None]
    /\ marked = {}
    /\ InitWorkers({})

NextStore ==
    \/ DbCreate
    \/ DbGetRecent
    \/ DbGetNextUnprinted
    \/ \E id \in AllIds : DbMarkPrinted(id)
    \/ Tick

StoreSpec == InitStore /\ [][NextStore]_vars

\* The single worker under the scheduling the liveness claims assume: the
\* worker process keeps running its loop, and connect, poll, print and
\* acknowledge each succeed eventually when tried again and again.
LiveSpec ==
    /\ Init
    /\ [][Next]_vars
    /\ WF_vars(WorkerStep(1))
    /\ SF_vars(ConnectOk(1))
    /\ SF_vars(PollOk(1))
    /\ SF_vars(PrintOk(1))
    /\ SF_vars(AckOk(1))

\* The single worker under the one assumption the shutdown and retry claims
\* need: the worker process keeps running (every call and every sleep in
\* progress comes to an end).
FairSpec ==
    /\ Init
    /\ [][Next]_vars
    /\ WF_vars(WorkerStep(1))

\* ------------------------------------------------------------------ app.py
\* The call db.create_message(*args): Python binds the arguments to the one
\* parameter `content` and raises TypeError when their number is not one.
call_create_message(tbl, args, t) ==
    IF Len(args) = 1
    THEN LET new == create_message(tbl, uuid4(tbl), args[1], t)
         IN  [raised |-> "none", table |-> new, value |-> new[Len(new)]]
    ELSE [raised |-> "TypeError", table |-> tbl, value |-> None]

\* app.create_message: validate name and content, call
\* db.create_message(name, content), answer 201 with the record; ValueError
\* gives 400, any other exception 500.
create_message_response(tbl, body, t) ==
    LET name == validate_name(body.name)
        content == validate_message_content(body.content)
    IN  IF ~name.ok \/ ~content.ok
        THEN [status |-> 400, body |-> None, table |-> tbl]
        ELSE LET call == call_create_message(tbl, <<name.value, content.value>>, t)
             IN  IF call.raised # "none"
                 THEN [status |-> 500, body |-> None, table |-> tbl]
                 ELSE [status |-> 201, body |-> call.value, table |-> call.table]

\* A message id as the string a request carries, and back.
IdStr(id) == <<48 + id>>
IdOf(s) == s[1] - 48

\* app.mark_message_printed on a request body: validate_message_id, then
\* db.mark_message_printed, then 200; ValueError gives 400.
mark_printed_response(tbl, body, t) ==
    LET id == validate_message_id(body.id)
    IN  IF ~id.ok
        THEN [status |-> 400, table |-> tbl]
        ELSE [status |-> 200, table |-> mark_printed_endpoint(tbl, IdOf(id.value), t)]

\* Request bodies.
ApiNames ==
    {Absent} \cup {Given(s) : s \in {<<32>>, <<32, 97, 32>>,
                                      Repeat(97, MAX_NAME_LENGTH + 1)}}
ApiContents ==
    {Absent} \cup {Given(s) : s \in {<<>>, <<32, 97, 32>>,
                                      Repeat(97, MAX_CONTENT_LENGTH + 1)}}
ApiIds ==
    {Absent, Given(<<>>), Given(<<32>>)}
        \cup {Given(IdStr(id)) : id \in AllIds}
        \cup {Given(<<32>> \o IdStr(id)) : id \in AllIds}

\* POST /message
ApiCreate ==
    /\ \E name \in ApiNames, content \in ApiContents :
         LET body == [name |-> name, content |-> content]
             r == create_message_response(table, body, now)
         IN  /\ table' = r.table
             /\ lastOp' = [op |-> "POST /message", arg |-> body,
                           result |-> [status |-> r.status, body |-> r.body]]
    /\ UNCHANGED <<now, marked, workerVars, histVars>>

\* GET /printer/next-to-print
ApiGetNextToPrint ==
    /\ \E r \in get_next_to_print_response(table) :
         lastOp' = [op |-> "GET /printer/next-to-print", arg |-> None, result |-> r]
    /\ UNCHANGED <<table, now, marked, workerVars, histVars>>

\* POST /printer/mark-printed
ApiMarkPrinted ==
    /\ \E id \in ApiIds :
         LET body == [id |-> id]
             r == mark_printed_response(table, body, now)
         IN  /\ table' = r.table
             /\ marked' = IF r.status = 200
                           THEN marked \cup {IdOf(strip(id.text))} ELSE marked
             /\ lastOp' = [op |-> "POST /printer/mark-printed", arg |-> body,
                           result |-> [status |-> r.status]]
    /\ UNCHANGED <<now, workerVars, histVars>>

\* The HTTP interface over a table that db.create_message(content) fills.
NextApi ==
    \/ DbCreate
    \/ Tick
    \/ ApiCreate
    \/ ApiGetNextToPrint
    \/ ApiMarkPrinted

ApiSpec == InitStore /\ [][NextApi]_vars

\* ---------------------------------------------------------- the validators
\* The validators applied to request strings.
ValidateName ==
    /\ \E name \in NameInputs :
         lastOp' = [op |-> "validate_name", arg |-> name, result |-> validate_name(name)]
    /\ UNCHANGED <<table, now, marked, workerVars, histVars>>

ValidateContent ==
    /\ \E content \in ContentInputs :
         lastOp' = [op |-> "validate_message_content", arg |-> content,
                    result |-> validate_message_content(content)]
    /\ UNCHANGED <<table, now, marked, workerVars, histVars>>

NextValidators == ValidateName \/ ValidateContent

ValidatorSpec == InitStore /\ [][NextValidators]_vars

\* ------------------------------------------------- worker.py, print_message
\* A field of the message as JSON gives it: a number or a string.
JsonNumber(n) == [type |-> "number", value |-> n]
JsonString(x) == [type |-> "string", text |-> x]

\* message_data.get(field, default)
Get(message_data, field, default) ==
    IF field \in DOMAIN message_data THEN message_data[field] ELSE default

\* datetime.fromisoformat(created_at.replace('Z', '+00:00')) returns: the text
\* is a timestamp as isoformat() writes it, with or without the 'Z'.
Parseable(created_at) ==
    \E t \in Instants : created_at = isoformat(t) \/ created_at = utcnow_iso(t)

\* strftime('%m/%d/%Y') and strftime('%I:%M %p MST') of the one date, hour and
\* minute every timestamp of the model has.
DateStr == "mm/dd/YYYY"
TimeStr == "HH:MM xM MST"

\* f"{message_number:03d}"
Pad3(n) ==
    IF n < 10 THEN "00" \o ToString(n)
    ELSE IF n < 100 THEN "0" \o ToString(n)
    ELSE ToString(n)

\* The calls print_message makes on self.printer, in order.
DeviceCalls(message_data) ==
    LET content == Get(message_data, "content", "")
        sender_name == Get(message_data, "name", "Anonymous")
        created_at == Get(message_data, "created_at", <<>>)
        message_number == Get(message_data, "message_number", JsonNumber(0)).value
        date_str == IF Parseable(created_at) THEN DateStr ELSE "N/A"
        time_str == IF Parseable(created_at) THEN TimeStr ELSE "N/A"
        msg_id == Pad3(message_number)
    IN  <<[op |-> "set", data |-> "align=center, font=a, width=4, height=4, bold=True"],
          [op |-> "text", data |-> "RECEIPT\n"],
          [op |-> "text", data |-> "ME\n\n"],
          [op |-> "set", data |-> "align=center, font=a, width=1, height=1, bold=False"],
          [op |-> "text", data |-> "================================================\n\n"],
          [op |-> "set", data |-> "align=left, font=a, width=1, height=1, bold=True"],
          [op |-> "text", data |-> "TO: "],
          [op |-> "set", data |-> "bold=False"],
          [op |-> "text", data |-> "Andy, Annie, Newt & Harold\n\n"],
          [op |-> "set", data |-> "bold=True"],
          [op |-> "text", data |-> "MSG: "],
          [op |-> "set", data |-> "bold=False"],
          [op |-> "text", data |-> "#" \o msg_id \o "\n\n"],
          [op |-> "set", data |-> "bold=True"],
          [op |-> "text", data |-> "DATE: "],
          [op |-> "set", data |-> "bold=False"],
          [op |-> "text", data |-> date_str \o "\n"],
          [op |-> "set", data |-> "bold=True"],
          [op |-> "text", data |-> "TIME: "],
          [op |-> "set", data |-> "bold=False"],
          [op |-> "text", data |-> time_str \o "\n\n"],
          [op |-> "set", data |-> "bold=True"],
          [op |-> "text", data |-> "FROM: "],
          [op |-> "set", data |-> "bold=False"],
          [op |-> "text", data |-> sender_name \o "\n\n"],
          [op |-> "set", data |-> "align=center"],
          [op |-> "text", data |-> "------------------------------------------------\n\n"],
          [op |-> "set", data |-> "align=left, font=a, width=3, height=3, bold=False"],
          [op |-> "text", data |-> content \o "\n\n"],
          [op |-> "set", data |-> "align=center, font=a, width=1, height=1"],
          [op |-> "text", data |-> "------------------------------------------------\n"],
          [op |-> "text", data |-> "receiptme.xyz\n"],
          [op |-> "text", data |-> "------------------------------------------------\n\n\n"],
          [op |-> "cut", data |-> ""]>>

\* How many calls that is (the same for every message).
NumCalls == Len(DeviceCalls([content |-> ""]))

DeviceErrors == {"USBNotFoundError", "EscposError", "Exception"}

\* Variant: the cut is in a `finally`, so it is issued after a failure too.
print_message_cut_in_finally(handle, message_data, failAt, err) ==
    IF handle # "open"
    THEN [ok |-> FALSE, sent |-> <<>>, printer |-> handle]
    ELSE IF Get(message_data, "message_number", JsonNumber(0)).type # "number"
    THEN [ok |-> FALSE, sent |-> <<>>, printer |-> handle]
    ELSE LET calls == DeviceCalls(message_data) IN
         IF failAt = 0
         THEN [ok |-> TRUE, sent |-> calls, printer |-> handle]
         ELSE [ok |-> FALSE,
               sent |-> SubSeq(calls, 1, failAt - 1) \o <<calls[Len(calls)]>>,
               printer |-> IF err = "USBNotFoundError" THEN "none" ELSE handle]

\* Variant: the timestamp is parsed outside the inner try, so a created_at
\* that cannot be parsed ends the print.
print_message_strict_date(handle, message_data, failAt, err) ==
    IF handle # "open"
    THEN [ok |-> FALSE, sent |-> <<>>, printer |-> handle]
    ELSE IF Get(message_data, "message_number", JsonNumber(0)).type # "number"
    THEN [ok |-> FALSE, sent |-> <<>>, printer |-> handle]
    ELSE IF ~Parseable(Get(message_data, "created_at", <<>>))
    THEN [ok |-> FALSE, sent |-> <<>>, printer |-> handle]
    ELSE LET calls == DeviceCalls(message_data) IN
         IF failAt = 0
         THEN [ok |-> TRUE, sent |-> calls, printer |-> handle]
         ELSE [ok |-> FALSE, sent |-> SubSeq(calls, 1, failAt - 1),
               printer |-> IF err = "USBNotFoundError" THEN "none" ELSE handle]

\* print_message(message_data) with the handle it finds in self.printer.  The
\* device raises err in its failAt-th call (failAt = 0: in none).  The result:
\* what is returned, the calls that completed, and self.printer afterwards.
\* int() of a message_number that is no number raises before the first call.
print_message(handle, message_data, failAt, err) ==
    IF handle # "open"
    THEN [ok |-> FALSE, sent |-> <<>>, printer |-> handle]
    ELSE IF Get(message_data, "message_number", JsonNumber(0)).type # "number"
    THEN [ok |-> FALSE, sent |-> <<>>, printer |-> handle]
    ELSE LET calls == DeviceCalls(message_data) IN
         IF failAt = 0
         THEN [ok |-> TRUE, sent |-> calls, printer |-> handle]
         ELSE [ok |-> FALSE, sent |-> SubSeq(calls, 1, failAt - 1),
               printer |-> IF err = "USBNotFoundError" THEN "none" ELSE handle]

\* Messages handed to print_message: what the backend stores, with and
\* without the fields it may lack, and timestamps datetime cannot parse.
PrintInputs ==
    LET base == {[id |-> 1, content |-> "Hi", created_at |-> c] :
                    c \in {utcnow_iso(0), utcnow_iso(1), <<>>, <<120>>}}
        ext(m, f, v) == [x \in DOMAIN m \cup {f} |-> IF x = f THEN v ELSE m[x]]
        named == base \cup {ext(m, "name", "Ann") : m \in base}
    IN  named
           \cup {ext(m, "message_number", JsonNumber(7)) : m \in named}
           \cup {ext(m, "message_number", JsonString("x")) : m \in named}

\* The calls of print_message that are checked: a handle, a message, and
\* what the device does.
PrintCalls ==
    {[op |-> "call print_message",
      arg |-> [printer |-> handle, message |-> message_data,
               failAt |-> failAt, err |-> err],
      result |-> None] :
        handle \in {"none", "open"}, message_data \in PrintInputs,
        failAt \in 0..NumCalls, err \in DeviceErrors}

InitPrint ==
    /\ table = <<>>
    /\ now = 0
    /\ lastOp \in PrintCalls
    /\ marked = {}
    /\ InitWorkers({})

PrintMessage ==
    /\ lastOp.op = "call print_message"
    /\ lastOp' = [op |-> "print_message",
                  arg |-> lastOp.arg,
                  result |-> print_message(lastOp.arg.printer, lastOp.arg.message,
                                           lastOp.arg.failAt, lastOp.arg.err)]
    /\ UNCHANGED <<table, now, marked, workerVars, histVars>>

PrintSpec == InitPrint /\ [][PrintMessage]_vars


\* ---------------------------------------------------------------- helpers
Unprinted(tbl) == {i \in 1..Len(tbl) : tbl[i].printed = "false"}

CreatedAt(item) == fromisoformat(item.created_at)

ValidConfig(w) == vendor_id[w] # UNSET_USB_ID /\ product_id[w] # UNSET_USB_ID

\* ------------------------------------------------------------------ claims

\* C1: get_next_unprinted returns the unprinted message that was created
\* earliest (no unprinted message has an earlier created_at), and returns
\* None exactly when no unprinted message exists.  The tie-break clause of the
\* claim is left out, so that this states no more than the claim does: the
\* statement already fails for messages created at different instants.
C1_ReturnsOldestUnprinted ==
    lastOp.op = "get_next_unprinted" =>
        IF Unprinted(table) = {}
        THEN lastOp.result = None
        ELSE \E i \in Unprinted(table) :
                /\ lastOp.result = table[i]
                /\ \A j \in Unprinted(table) :
                      ~Before(CreatedAt(table[j]), CreatedAt(table[i]))

\* C4: a second mark_message_printed(id) leaves the store exactly as the first
\* successful call left it (printed_at included).
C4_SecondMarkChangesNothing ==
    [][\A id \in AllIds : (id \in marked /\ DbMarkPrinted(id)) => table' = table]_vars

\* C5: once mark_message_printed(id) has returned, get_next_unprinted never
\* returns the message with that id.
C5_MarkedNeverReturned ==
    (lastOp.op = "get_next_unprinted" /\ lastOp.result # None)
        => lastOp.result.id \notin marked

C5_Witness ==
    /\ lastOp.op = "get_next_unprinted"
    /\ lastOp.result # None
    /\ \E id \in marked : id \in MsgIds
    /\ \E id \in marked : id = GhostId

\* C6: the printed flag of a message never goes from "true" back to "false",
\* and the message stays in the table.
C6_PrintedMonotonic ==
    [][\A i \in 1..Len(table) :
          table[i].printed = "true" =>
             /\ i <= Len(table')
             /\ table'[i].id = table[i].id
             /\ table'[i].printed = "true"]_vars

C6_Witness ==
    /\ lastOp.op = "create_message"
    /\ \E i \in 1..Len(table) :
          /\ i < Len(table)
          /\ table[i].id \in MsgIds
          /\ table[i].printed = "true"

\* C7: in every stored item printed_at is non-null exactly when printed is "true".
C7_PrintedAtIffPrinted ==
    \A i \in 1..Len(table) :
        (table[i].printed_at # None) <=> (table[i].printed = "true")

C7_Witness ==
    /\ \E i \in 1..Len(table) : table[i].printed = "true" /\ table[i].id \in MsgIds
    /\ \E i \in 1..Len(table) : table[i].printed = "false"
    /\ \E i \in 1..Len(table) : table[i].id = GhostId

\* C2: the worker acknowledges a message only after print_message returned
\* True for it in the same iteration, so every message that is printed in the
\* store has been printed on paper to the cut at least once.
C2_AckOnlyAfterPrint ==
    /\ \A w \in Workers :
          (pc[w] = "ack" \/ iter[w].ack # "none") =>
             /\ iter[w].print = "ok"
             /\ printCount[message[w].id] >= 1
    /\ \A i \in 1..Len(table) :
          table[i].printed = "true" => printCount[table[i].id] >= 1

C2_Witness ==
    \E w \in Workers :
        /\ iter[w].ack = "ok"
        /\ ItemOf(table, message[w].id).printed = "true"

\* C3: after print_message returned False the worker does not acknowledge in
\* that iteration and the message is still unprinted in the store.
C3_FailedPrintNotAcked ==
    \A w \in Workers :
        iter[w].print = "failed" =>
            /\ pc[w] # "ack"
            /\ iter[w].ack = "none"
            /\ ItemOf(table, message[w].id).printed = "false"

C3_Witness ==
    \E w \in Workers :
        /\ iter[w].print = "failed"
        /\ pc[w] = "pause"
        /\ printer[w] = "none"

\* C8: with one worker and no failed poll, print or acknowledgment, no message
\* is printed twice; and the worker never holds for printing a message that is
\* already acknowledged in the store.
C8_PrintedOnce ==
    /\ ~failed => \A id \in MsgIds : printCount[id] <= 1
    /\ \A w \in Workers :
          pc[w] = "print" => ItemOf(table, message[w].id).printed = "false"

C8_Witness ==
    /\ ~failed
    /\ Len(table) = MaxMsgs
    /\ \A i \in 1..Len(table) :
          table[i].printed = "true" /\ printCount[table[i].id] = 1

\* C9: with valid USB ids and no signal, every created message is eventually
\* printed on paper and marked printed in the store.
C9_EventuallyPrinted ==
    \A id \in MsgIds :
        (HasItem(table, id) /\ ValidConfig(1))
            ~> \/ ~running[1]
               \/ /\ printCount[id] >= 1
                  /\ ItemOf(table, id).printed = "true"

C9_Witness ==
    /\ running[1]
    /\ failed
    /\ Len(table) = MaxMsgs
    /\ \A i \in 1..Len(table) :
          table[i].printed = "true" /\ printCount[table[i].id] >= 1

\* C10: the worker prints oldest first: a message has been printed only if
\* every message created before it has been printed too.
C10_OldestPrintedFirst ==
    \A i, j \in 1..Len(table) :
        (Before(CreatedAt(table[i]), CreatedAt(table[j])) /\ printCount[table[j].id] >= 1)
            => printCount[table[i].id] >= 1

\* C11: while the printer cannot be connected the worker stays in the
\* reconnect path: a failed connect_printer() is followed by a sleep of
\* PRINTER_RECONNECT_DELAY seconds that runs to its end, then by the top of the
\* loop and another connect_printer(); nothing is polled, printed or
\* acknowledged on the way, the loop is left only when `running` is False, and
\* the retry goes on for as long as the worker runs.
C11_ConnectRetry ==
    /\ [][\A w \in Workers :
            /\ (pc[w] = "connect" /\ pc'[w] # "connect" /\ printer'[w] # "open")
                  => /\ pc'[w] = "backoff"
                     /\ sleepLeft'[w] = PRINTER_RECONNECT_DELAY
            /\ pc[w] = "backoff"
                  => /\ pc'[w] \in {"backoff", "loop"}
                     /\ pc'[w] = "loop" => sleepLeft[w] = 0
                     /\ message'[w] = message[w]
                     /\ printCount' = printCount
                     /\ marked' = marked
            /\ (pc[w] = "loop" /\ printer[w] # "open" /\ pc'[w] # "loop")
                  => pc'[w] = IF running[w] THEN "connect" ELSE "cleanup"]_vars
    /\ (pc[1] = "backoff") ~> (pc[1] = "connect" \/ ~running[1])

C11_Witness ==
    /\ pc[1] = "loop"
    /\ running[1]
    /\ printer[1] = "none"
    /\ iter[1].err = "PermissionError"

\* C12: after print_message returned True the worker calls mark_as_printed
\* once: it is at the call or has its one outcome, and with either outcome it
\* goes through the pause to the top of the loop and, still running, to the
\* next poll.
C12_AckOnce ==
    [][\A w \in Workers :
          /\ iter[w].print = "ok" => ((pc[w] = "ack") <=> (iter[w].ack = "none"))
          /\ (pc[w] = "ack" /\ pc'[w] # "ack")
                => pc'[w] = "pause" /\ iter'[w].ack \in {"ok", "failed"}
          /\ iter[w].ack # "none"
                => /\ pc[w] \in {"pause", "loop"}
                   /\ pc'[w] \in {"pause", "loop", IF running[w] THEN "poll" ELSE "cleanup"}
                   /\ iter'[w].ack \in {iter[w].ack, "none"}]_vars

C12_Witness ==
    /\ iter[1].ack = "failed"
    /\ pc[1] = "loop"
    /\ running[1]
    /\ printer[1] = "open"

C14_SignalInterruptsWait ==
    [][\A w \in Workers :
          (~running[w] /\ sigAt[w] \in WaitPcs /\ pc[w] = sigAt[w])
              => sleepLeft'[w] = sleepLeft[w]]_vars

\* C15: a signal that arrives during print_message does not end the print: the
\* print returns True or False, a print that returned True is followed by
\* mark_as_printed, and the loop is left from its top after that.
C15_PrintDrained ==
    [][\A w \in Workers :
          (sigAt[w] = "print" \/ sigAt'[w] = "print") =>
             /\ (pc[w] = "print" /\ pc'[w] # "print")
                   => /\ pc'[w] \in {"ack", "pause"}
                      /\ iter'[w].print \in {"ok", "failed"}
             /\ (pc'[w] = "cleanup" /\ pc[w] # "cleanup")
                   => /\ pc[w] = "loop"
                      /\ iter[w].print # "none"
                      /\ iter[w].print = "ok" => iter[w].ack # "none"]_vars

C15_Witness ==
    /\ sigAt[1] = "print"
    /\ pc[1] = "loop"
    /\ iter[1].ack = "ok"
    /\ Len(table) = 1
    /\ table[1].printed = "true"
    /\ printCount[table[1].id] = 1

\* C16: after print_message failed with USBNotFoundError the handle is None,
\* and the next iteration calls connect_printer() before it polls or prints;
\* the worker polls and prints only with an open handle.
C16_DisconnectClearsHandle ==
    [][\A w \in Workers :
          /\ (iter[w].print = "failed" /\ iter[w].err = "USBNotFoundError")
                => /\ printer[w] = "none"
                   /\ pc'[w] \in {"pause", "loop", IF running[w] THEN "connect" ELSE "cleanup"}
          /\ pc'[w] \in {"poll", "print"} => printer'[w] = "open"]_vars

C16_Witness ==
    /\ iter[1].print = "failed"
    /\ iter[1].err = "USBNotFoundError"
    /\ pc[1] = "loop"
    /\ running[1]

\* C17: after print_message failed with a device error other than
\* USBNotFoundError the worker, still running, calls connect_printer() before
\* the next poll.
C17_DeviceErrorReconnects ==
    [][\A w \in Workers :
          (/\ iter[w].print = "failed"
           /\ iter[w].err \in {"EscposError", "Exception"}
           /\ pc[w] = "loop" /\ pc'[w] # "loop" /\ running[w])
              => pc'[w] = "connect"]_vars

\* C18: a worker whose vendor or product id is unset never gets past the
\* configuration check: it aborts there and stays aborted, with no printer
\* handle, no polled message and no print or acknowledgment.
C18_UnsetIdsAbort ==
    [][\A w \in Workers :
          ~ValidConfig(w) =>
             /\ pc'[w] \in {"unlaunched", "start", "aborted"}
             /\ pc[w] = "aborted" => pc'[w] = "aborted"
             /\ printer'[w] = "none"
             /\ message'[w] = None
             /\ iter'[w] = NoIter]_vars

C18_Witness ==
    /\ pc[1] = "aborted"
    /\ vendor_id[1] = USB_ID
    /\ product_id[1] = UNSET_USB_ID

\* C19: with valid ids no error of an iteration ends the worker: each error
\* caught puts the worker into a sleep, every sleep leads back to the top of
\* the loop, and the loop is left only from its top with `running` False.
C19_ErrorsNeverTerminate ==
    [][\A w \in Workers :
          ValidConfig(w) =>
             /\ (pc'[w] \in {"cleanup", "done", "aborted"} /\ pc'[w] # pc[w])
                   => \/ pc[w] = "loop" /\ pc'[w] = "cleanup" /\ ~running[w]
                      \/ pc[w] = "cleanup" /\ pc'[w] = "done"
             /\ (iter'[w].err # "none" /\ iter'[w].err # iter[w].err)
                   => pc'[w] \in WaitPcs /\ sleepLeft'[w] > 0
             /\ (pc[w] \in WaitPcs /\ pc'[w] # pc[w]) => pc'[w] = "loop"]_vars

C19_Witness ==
    /\ iter[1].err = "KeyError"
    /\ pc[1] = "loop"
    /\ running[1]
    /\ \E i \in 1..Len(table) : printCount[table[i].id] >= 1

\* C20: mark_message_printed(id) for an id that matches no item leaves the
\* table as it was.
C20_UnknownIdChangesNothing ==
    [][\A id \in AllIds :
          (~HasItem(table, id) /\ DbMarkPrinted(id)) => table' = table]_vars

\* C29: validate_message_content returns the trimmed content exactly when the
\* trimmed length is in 1..280, and raises ValueError for an absent value, for
\* trimmed length 0 and for trimmed length above 280.  The trimmed string is
\* told here without strip(): what is returned is a slice of the input that
\* neither starts nor ends with whitespace and has only whitespace around it.
C29_ContentValidated ==
    lastOp.op = "validate_message_content" =>
        LET s == lastOp.arg.text
            r == lastOp.result
            inner == {k \in 1..Len(s) : s[k] \notin Whitespace}
            n == IF inner = {} THEN 0
                 ELSE 1 + (CHOOSE k \in inner : \A j \in inner : j <= k)
                        - (CHOOSE k \in inner : \A j \in inner : k <= j)
        IN  IF lastOp.arg.given /\ n >= 1 /\ n <= MAX_CONTENT_LENGTH
            THEN /\ r.ok
                 /\ Len(r.value) = n
                 /\ r.value[1] \notin Whitespace
                 /\ r.value[n] \notin Whitespace
                 /\ \E lead \in 0..Len(s) :
                       /\ SubSeq(s, lead + 1, lead + n) = r.value
                       /\ \A k \in 1..Len(s) :
                             (k <= lead \/ k > lead + n) => s[k] \in Whitespace
            ELSE r = ValueError

C29_Witness ==
    /\ lastOp.op = "validate_message_content"
    /\ lastOp.result.ok
    /\ Len(lastOp.result.value) = MAX_CONTENT_LENGTH
    /\ Len(lastOp.arg.text) = MAX_CONTENT_LENGTH + 2

\* C30: validate_name returns the trimmed name exactly when the trimmed length
\* is in 1..50, and raises ValueError for an absent value, for trimmed length 0
\* and for trimmed length above 50.
C30_NameValidated ==
    lastOp.op = "validate_name" =>
        LET s == lastOp.arg.text
            r == lastOp.result
            inner == {k \in 1..Len(s) : s[k] \notin Whitespace}
            first == CHOOSE k \in inner : \A j \in inner : k <= j
            last == CHOOSE k \in inner : \A j \in inner : j <= k
        IN  IF lastOp.arg.given /\ inner # {} /\ last - first + 1 <= MAX_NAME_LENGTH
            THEN r = Returned(SubSeq(s, first, last))
            ELSE r = ValueError

C30_Witness ==
    /\ lastOp.op = "validate_name"
    /\ lastOp.result.ok
    /\ Len(lastOp.result.value) = MAX_NAME_LENGTH
    /\ Len(lastOp.arg.text) = MAX_NAME_LENGTH + 2

\* C22: for a valid (name, content) pair POST /message answers 201 with the
\* full record (name and content trimmed, printed "false", printed_at null)
\* and that record is in the table.
C22_CreateAnswersRecord ==
    (/\ lastOp.op = "POST /message"
     /\ validate_name(lastOp.arg.name).ok
     /\ validate_message_content(lastOp.arg.content).ok)
        => /\ lastOp.result.status = 201
           /\ lastOp.result.body.name = strip(lastOp.arg.name.text)
           /\ lastOp.result.body.content = strip(lastOp.arg.content.text)
           /\ lastOp.result.body.printed = "false"
           /\ lastOp.result.body.printed_at = None
           /\ \E i \in 1..Len(table) : table[i] = lastOp.result.body

\* C25: when the table holds no unprinted message, GET /printer/next-to-print
\* answers 200 with message null.
C25_EmptyIsNotAnError ==
    (lastOp.op = "GET /printer/next-to-print" /\ Unprinted(table) = {})
        => lastOp.result = [status |-> 200, body |-> [message |-> None]]

C25_Witness ==
    /\ lastOp.op = "GET /printer/next-to-print"
    /\ Len(table) = MaxMsgs
    /\ Unprinted(table) = {}

\* C26: a POST /message whose name or content is absent, empty, whitespace
\* only or over-long, and a POST /printer/mark-printed whose id is absent or
\* blank, is answered 400 and leaves the table as it was.
C26_RejectedLeavesStore ==
    [][/\ (/\ lastOp' # lastOp
           /\ lastOp'.op = "POST /message"
           /\ \/ ~lastOp'.arg.name.given
              \/ ~lastOp'.arg.content.given
              \/ Len(strip(lastOp'.arg.name.text)) \notin 1..MAX_NAME_LENGTH
              \/ Len(strip(lastOp'.arg.content.text)) \notin 1..MAX_CONTENT_LENGTH)
             => lastOp'.result.status = 400 /\ table' = table
       /\ (/\ lastOp' # lastOp
           /\ lastOp'.op = "POST /printer/mark-printed"
           /\ (~lastOp'.arg.id.given \/ strip(lastOp'.arg.id.text) = <<>>))
             => lastOp'.result.status = 400 /\ table' = table]_vars

C26_Witness ==
    /\ lastOp.op = "POST /message"
    /\ lastOp.result.status = 400
    /\ validate_message_content(lastOp.arg.content).ok
    /\ Len(lastOp.arg.name.text) > MAX_NAME_LENGTH
    /\ Len(table) = MaxMsgs

\* C21: the k-th created message carries sequence number k (message_number in
\* the code's records).
C21_SequenceNumbers ==
    lastOp.op = "create_message" =>
        /\ "message_number" \in DOMAIN lastOp.result
        /\ lastOp.result.message_number =
              Cardinality({i \in 1..Len(table) : "content" \in DOMAIN table[i]})

C24_RecentNewestFirst ==
    lastOp.op = "get_recent_messages" =>
        LET r == lastOp.result
            n == lastOp.arg
            Dated(item) == "created_at" \in DOMAIN item
        IN  /\ Len(r) = IF n < Len(table) THEN n ELSE Len(table)
            /\ \A i \in 1..(Len(r) - 1) :
                  (Dated(r[i]) /\ Dated(r[i + 1]))
                      => ~Before(CreatedAt(r[i]), CreatedAt(r[i + 1]))
            /\ \A j \in 1..Len(table) :
                  (Dated(table[j]) /\ \A i \in 1..Len(r) : r[i].id # table[j].id)
                      => \A i \in 1..Len(r) :
                            Dated(r[i]) => ~Before(CreatedAt(r[i]), CreatedAt(table[j]))

\* C28: no step removes an item or changes the id, content or created_at of
\* one, and mark_message_printed(id) leaves every item with another id as it
\* was; only mark_message_printed changes an item at all.
C28_AppendOnly ==
    [][/\ Len(table') >= Len(table)
       /\ \A i \in 1..Len(table) :
             /\ \A f \in DOMAIN table[i] \ {"printed", "printed_at"} :
                   f \in DOMAIN table'[i] /\ table'[i][f] = table[i][f]
             /\ table'[i] # table[i] =>
                   /\ lastOp'.op = "mark_message_printed"
                   /\ lastOp'.arg = table[i].id
                   /\ Len(table') = Len(table)]_vars

C28_Witness ==
    /\ lastOp.op = "mark_message_printed"
    /\ lastOp.arg \in MsgIds
    /\ Len(table) = MaxMsgs + 1
    /\ \E i \in 1..Len(table) : table[i].printed = "false"

\* C27: once two workers have both printed the same message and both
\* acknowledgments were answered 200, the table holds that message exactly
\* once, printed with a printed_at, and get_next_unprinted does not return it;
\* an acknowledgment of a message that is already printed is answered 200.
C27_BothAcksConverge ==
    /\ (/\ iter[1].ack = "ok"
        /\ iter[2].ack = "ok"
        /\ message[1] # None
        /\ message[2] # None
        /\ message[1].id = message[2].id)
          => LET id == message[1].id
             IN  /\ Cardinality({i \in 1..Len(table) : table[i].id = id}) = 1
                 /\ ItemOf(table, id).printed = "true"
                 /\ ItemOf(table, id).printed_at # None
                 /\ \A m \in get_next_unprinted(table) : m = None \/ m.id # id
    /\ \A w \in Workers :
          (pc[w] = "ack" /\ ItemOf(table, message[w].id).printed = "true")
             => mark_printed_response(table, [id |-> Given(IdStr(message[w].id))],
                                      now).status = 200

C27_Witness ==
    /\ iter[1].ack = "ok"
    /\ iter[2].ack = "ok"
    /\ message[1] # None
    /\ message[2] # None
    /\ message[1].id = message[2].id
    /\ printCount[message[1].id] >= 2

\* The order of the worker's positions within one iteration of run(), and
\* after the loop.
Rank(p) ==
    CASE p = "start" -> 0
      [] p = "connect" -> 1
      [] p = "poll" -> 2
      [] p = "print" -> 3
      [] p = "ack" -> 4
      [] p \in WaitPcs -> 5
      [] p = "loop" -> 6
      [] p = "cleanup" -> 7
      [] OTHER -> 8

\* The worker's poll got an answer from the backend (a message or null).
PollAnswered(w) ==
    /\ pc[w] = "poll"
    /\ pc'[w] \in {"print", "pollwait"}
    /\ iter'[w].err = "none"

\* The item with this id is unprinted and no other unprinted item has its
\* created_at.
SoleOldestCandidate(id) ==
    /\ HasItem(table, id)
    /\ ItemOf(table, id).printed = "false"
    /\ \A i \in Unprinted(table) :
          table[i].id # id => table[i].created_at # ItemOf(table, id).created_at

\* C31: a message whose print failed is what the worker's next answered poll
\* returns (no other actor marks it printed; another unprinted message with
\* the very same created_at is left out of the claim).
C31_FailedPrintReoffered ==
    [][\A w \in Workers :
          PollAnswered(w) =>
             \A id \in stuck :
                SoleOldestCandidate(id)
                   => message'[w] # None /\ message'[w].id = id]_vars

\* C38: for every message the count of completed prints is at most one more
\* than the count of failed acknowledgments (as far as the counters reach),
\* and a print of a message that was printed before completes only after an
\* acknowledgment of it has failed.
C38_DuplicatesNeedAckFailure ==
    [][/\ \A id \in MsgIds :
             \/ printCount[id] <= 1 + ackFailures[id]
             \/ ackFailures[id] = MaxAckFailures /\ printCount[id] > 1 + MaxAckFailures
       /\ \A id \in MsgIds :
             (printCount'[id] # printCount[id] /\ printCount[id] >= 1)
                => ackFailures[id] >= 1]_vars

C38_Witness ==
    /\ printCount[1] = 2
    /\ ackFailures[1] = 1
    /\ pc[1] = "ack"

\* C39: while a message whose print keeps failing is unprinted, no message
\* created after it is printed.
C39_HeadOfLineBlocks ==
    [][\A w \in Workers :
          (pc[w] = "print" /\ pc'[w] = "ack") =>
             \A id \in stuck :
                (HasItem(table, id) /\ ItemOf(table, id).printed = "false")
                   => ~Before(CreatedAt(ItemOf(table, id)), CreatedAt(message[w]))]_vars

\* C40: once `running` is False the worker only moves forward through the
\* iteration in progress and from the top of the loop to the cleanup: it
\* starts no connect and no poll from the top of the loop, and so begins at
\* most one more print.
C40_NoIterationAfterSignal ==
    [][\A w \in Workers :
          ~running[w] =>
             /\ Rank(pc'[w]) >= Rank(pc[w])
             /\ pc[w] = "loop" => pc'[w] \in {"loop", "cleanup"}
             /\ (pc'[w] = "print" /\ pc[w] # "print") => pc[w] = "poll"]_vars

C40_Witness ==
    /\ ~running[1]
    /\ sigAt[1] = "none"
    /\ pc[1] = "ack"
    /\ iter[1].print = "ok"

\* C32: a poll that ends in a timeout, a connection error or an HTTP error is
\* followed by no print and no acknowledgment; the handle is kept, the worker
\* sleeps POLL_INTERVAL_SECONDS, the wait of a null answer, whatever happened
\* before, and a running worker polls again when the sleep is over.
C32_PollErrorFixedInterval ==
    [][\A w \in Workers :
          /\ (pc[w] = "poll" /\ pc'[w] = "pollwait")
                => /\ sleepLeft'[w] = POLL_INTERVAL_SECONDS
                   /\ printer'[w] = printer[w]
                   /\ printCount' = printCount
                   /\ table' = table
                   /\ iter'[w].print = "none"
                   /\ iter'[w].ack = "none"
          /\ (pc[w] = "pollwait" /\ pc'[w] # "pollwait")
                => pc'[w] = "loop" /\ sleepLeft[w] = 0 /\ table' = table
          /\ (/\ pc[w] = "loop"
              /\ pc'[w] # "loop"
              /\ running[w]
              /\ iter[w].print = "none"
              /\ iter[w].err = "RequestException")
                => pc'[w] = "poll"]_vars

C32_Witness ==
    /\ pc[1] = "loop"
    /\ running[1]
    /\ iter[1].err = "RequestException"
    /\ iter[1].print = "none"
    /\ sleepLeft[1] = 0
    /\ printer[1] = "open"
    /\ Unprinted(table) # {}

\* C33: the worker starts without a handle; it polls, prints and acknowledges
\* only with an open handle, which only connect_printer() opens; a successful
\* connect_printer() is followed by the poll with no sleep in between.
C33_WorksOnlyConnected ==
    [][\A w \in Workers :
          /\ pc[w] = "start" => printer[w] = "none"
          /\ pc[w] \in {"poll", "print", "ack"} => printer[w] = "open"
          /\ pc'[w] \in {"poll", "print", "ack"} => printer'[w] = "open"
          /\ (printer'[w] = "open" /\ printer[w] # "open") => pc[w] = "connect"
          /\ (pc[w] = "connect" /\ printer'[w] = "open")
                => pc'[w] \in {"connect", "poll"} /\ sleepLeft'[w] = sleepLeft[w]]_vars

C33_Witness ==
    /\ pc[1] = "print"
    /\ printer[1] = "open"
    /\ ~failed
    /\ \A id \in MsgIds : printCount[id] = 0

C34_PollClaimsNothing ==
    [][\A w \in Workers :
          PollAnswered(w) =>
             /\ table' = table
             /\ message'[w] # None =>
                   ItemOf(table', message'[w].id).printed = "false"]_vars

C34_Witness ==
    /\ ~failed
    /\ iter[1].print = "ok"
    /\ iter[2].print = "ok"
    /\ message[1] # None
    /\ message[2] # None
    /\ message[1].id = message[2].id
    /\ printCount[message[1].id] = 2

\* C36: print_message returns True only when every call was made in order and
\* the cut was the last of them; when a call raises, the calls made are the
\* ones before it, no cut among them, and False is returned.
C36_PrintAllOrNothing ==
    lastOp.op = "print_message" =>
        LET r == lastOp.result
            a == lastOp.arg
            Cuts(calls) == {i \in 1..Len(calls) : calls[i].op = "cut"}
        IN  IF r.ok
            THEN /\ a.printer = "open"
                 /\ r.sent = DeviceCalls(a.message)
                 /\ Cuts(r.sent) = {Len(r.sent)}
                 /\ \A i \in 1..(Len(r.sent) - 1) : r.sent[i].op \in {"set", "text"}
            ELSE /\ Cuts(r.sent) = {}
                 /\ Len(r.sent) < NumCalls
                 /\ r.sent # <<>> =>
                       /\ r.sent = SubSeq(DeviceCalls(a.message), 1, Len(r.sent))
                       /\ Len(r.sent) = a.failAt - 1

C36_Witness ==
    /\ lastOp.op = "print_message"
    /\ ~lastOp.result.ok
    /\ lastOp.arg.failAt = NumCalls - 1
    /\ Len(lastOp.result.sent) = NumCalls - 2

\* C37: with an open handle, a numeric message_number and a device that does
\* not fail, a message whose created_at cannot be parsed is printed: True is
\* returned, the values of the DATE and TIME lines are "N/A", every other call
\* is what it is for a message with a good timestamp, and the cut is last.
C37_BadTimestampPlaceholder ==
    (/\ lastOp.op = "print_message"
     /\ lastOp.arg.printer = "open"
     /\ lastOp.arg.failAt = 0
     /\ Get(lastOp.arg.message, "message_number", JsonNumber(0)).type = "number"
     /\ ~Parseable(Get(lastOp.arg.message, "created_at", <<>>)))
        => LET r == lastOp.result
               m == lastOp.arg.message
               good == [x \in DOMAIN m \cup {"created_at"} |->
                           IF x = "created_at" THEN utcnow_iso(0) ELSE m[x]]
               dated == {i \in 1..NumCalls :
                            DeviceCalls(good)[i].data \in {DateStr \o "\n", TimeStr \o "\n\n"}}
           IN  /\ r.ok
               /\ Len(r.sent) = NumCalls
               /\ Cardinality(dated) = 2
               /\ \A i \in 1..NumCalls :
                     IF i \in dated
                     THEN /\ r.sent[i].op = "text"
                          /\ r.sent[i].data \in {"N/A\n", "N/A\n\n"}
                          /\ r.sent[i - 1] = [op |-> "set", data |-> "bold=False"]
                          /\ r.sent[i - 2].data \in {"DATE: ", "TIME: "}
                     ELSE r.sent[i] = DeviceCalls(good)[i]
               /\ r.sent[NumCalls].op = "cut"

C37_Witness ==
    /\ lastOp.op = "print_message"
    /\ lastOp.result.ok
    /\ lastOp.arg.message.created_at = <<120>>
    /\ "name" \in DOMAIN lastOp.arg.message

====
